---- MODULE Spec2Model ----
(***************************************************************************)
(* A model of rust-cloc (src/src/main.rs): recursive file discovery, the   *)
(* per-file line classifier, the global and the by-extension reduction,    *)
(* run sequentially or through rayon's split/fold/reduce, and the printing *)
(* of the results.                                                         *)
(*                                                                         *)
(* Characters are one-token strings.  In file contents: "x" is any         *)
(* non-whitespace character, "SP" "TAB" "CR" are whitespace, "NL" is the   *)
(* line terminator and "BAD" is a byte at which reading fails (an invalid  *)
(* UTF-8 sequence).  In file names: letters, "." and "BAD" (a byte that    *)
(* is not valid Unicode).                                                  *)
(*                                                                         *)
(* Counts are usize in the source; a count can only overflow with 2^64     *)
(* lines, so they are modelled as naturals.                                *)
(***************************************************************************)
EXTENDS Naturals, Sequences, FiniteSets

VARIABLES
  fs,       \* the directory tree under the root argument (read-only input)
  threads,  \* Args.threads
  by_ext,   \* Args.by_ext
  pc,       \* position of main
  stack,    \* call stack of find_all_files: frames [dir, idx]
  files,    \* the Vec<PathBuf> filled by find_all_files (node ids)
  pool,     \* number of times the global rayon pool was built
  segs,     \* parallel mode: the pieces of the file list, left to right
  acc,      \* sequential mode: the fold's accumulator
  cur,      \* sequential mode: the mapped item not yet folded
  nclass,   \* how many times each position of the file list was classified
  last,     \* sequential mode: position of the iterator (files mapped)
  fatal,    \* a fatal error (a panic) has occurred in main or in a worker
  late,     \* a worker took a file after a fatal error had occurred
  res,      \* the value returned by count_lines / count_lines_by_ext
  out,      \* the lines printed to standard output so far
  steps,    \* number of steps the run has taken
  arg,      \* input of the function under test (function specifications)
  ret       \* its result

vars == <<fs, threads, by_ext, pc, stack, files, pool, segs, acc, cur,
          nclass, last, fatal, late, res, out, steps, arg, ret>>

\* ------------------------------------------------------------------ bounds

MaxNodes == 4      \* nodes of the directory tree, the root included
MaxBytes == 5      \* bytes of a file given to the line classifier
MaxNameLen == 3    \* characters of a file name given to get_ext
MaxCount == 1      \* lines counted in one entry of a partial map to merge

\* ------------------------------------------------------------ Results

\* Results::new
ResultsNew == [lines_of_code |-> 0, empty_lines |-> 0]

\* ------------------------------------------------- count_lines_in_file

Whitespace == {"SP", "TAB", "CR"}

ContentChars == {"x", "SP", "TAB", "CR", "NL", "BAD"}

\* Index of the first "NL" of b, or Len(b) when there is none: the end of
\* the chunk one read_line call consumes.
ChunkEnd(b) ==
  LET nls == {i \in 1..Len(b) : b[i] = "NL"}
  IN IF nls = {} THEN Len(b) ELSE CHOOSE i \in nls : \A j \in nls : i <= j

\* Lines::next strips the trailing "\n", then a trailing "\r".
StripEol(chunk) ==
  LET a == IF Len(chunk) > 0 /\ chunk[Len(chunk)] = "NL"
           THEN SubSeq(chunk, 1, Len(chunk) - 1) ELSE chunk
  IN IF Len(a) > 0 /\ a[Len(a)] = "CR" /\ Len(a) < Len(chunk)
     THEN SubSeq(a, 1, Len(a) - 1) ELSE a

\* BufRead::lines: the sequence of items the iterator yields for a file
\* holding the bytes b.  An item is [ok |-> TRUE, line |-> s] or
\* [ok |-> FALSE]; the iterator ends when read_line reads nothing.
RECURSIVE ReadLines(_)
ReadLines(b) ==
  IF b = <<>> THEN <<>>
  ELSE LET n == ChunkEnd(b)
           chunk == SubSeq(b, 1, n)
           rest == SubSeq(b, n + 1, Len(b))
           item == IF \E i \in 1..n : chunk[i] = "BAD"
                   THEN [ok |-> FALSE]
                   ELSE [ok |-> TRUE, line |-> StripEol(chunk)]
       IN <<item>> \o ReadLines(rest)

RECURSIVE TrimStart(_)
TrimStart(s) ==
  IF s # <<>> /\ Head(s) \in Whitespace THEN TrimStart(Tail(s)) ELSE s

RECURSIVE TrimEnd(_)
TrimEnd(s) ==
  IF s # <<>> /\ s[Len(s)] \in Whitespace
  THEN TrimEnd(SubSeq(s, 1, Len(s) - 1)) ELSE s

\* str::trim
Trim(s) == TrimEnd(TrimStart(s))

\* A variant of CountLine that tests line.is_empty() without trim().
CountLineNoTrim(r, line) ==
  IF line = <<>>
  THEN [r EXCEPT !.empty_lines = @ + 1]
  ELSE [r EXCEPT !.lines_of_code = @ + 1]

\* One iteration of the loop body for an Ok line (main.rs lines 66-70).
CountLine(r, line) ==
  IF Trim(line) = <<>>
  THEN [r EXCEPT !.empty_lines = @ + 1]
  ELSE [r EXCEPT !.lines_of_code = @ + 1]

\* A variant of CountLoop that keeps what was counted when a read fails.
RECURSIVE CountLoopKeep(_, _, _)
CountLoopKeep(items, i, r) ==
  IF i > Len(items) THEN r
  ELSE IF ~items[i].ok THEN r
  ELSE CountLoopKeep(items, i + 1, CountLine(r, items[i].line))

\* The for loop of count_lines_in_file from item i on, r counted so far.
RECURSIVE CountLoop(_, _, _)
CountLoop(items, i, r) ==
  IF i > Len(items) THEN r
  ELSE IF ~items[i].ok THEN ResultsNew
  ELSE CountLoop(items, i + 1, CountLine(r, items[i].line))

\* count_lines_in_file for a file that opened and holds the bytes b.
count_lines_in_file(b) == CountLoop(ReadLines(b), 1, ResultsNew)

\* --------------------------------------------------------------- get_ext

NameChars == {"a", "T", ".", "BAD"}

None == [some |-> FALSE]

Some(v) == [some |-> TRUE, v |-> v]

\* A variant of LastDot that finds the first "." instead.
FirstDot(s) ==
  LET dots == {i \in 1..Len(s) : s[i] = "."}
  IN IF dots = {} THEN 0 ELSE CHOOSE i \in dots : \A j \in dots : i <= j

\* Index of the last "." of s, 0 when there is none.
LastDot(s) ==
  LET dots == {i \in 1..Len(s) : s[i] = "."}
  IN IF dots = {} THEN 0 ELSE CHOOSE i \in dots : \A j \in dots : j <= i

\* Path::extension on a path whose file name is name: the name is split at
\* its last "."; there is no extension when there is no "." or when nothing
\* precedes it.
PathExtension(name) ==
  IF name = <<".", ".">> THEN None
  ELSE LET d == LastDot(name)
       IN IF d = 0 THEN None
          ELSE IF d = 1 THEN None
          ELSE Some(SubSeq(name, d + 1, Len(name)))

\* OsStr::to_str: None when the string is not valid Unicode.
OsToStr(os) ==
  IF \E i \in 1..Len(os) : os[i] = "BAD" THEN None ELSE Some(os)

UnwrapOr(opt, default) == IF opt.some THEN opt.v ELSE default

\* get_ext (the empty string is the empty sequence)
get_ext(name) ==
  LET e == PathExtension(name)
  IN IF e.some THEN UnwrapOr(OsToStr(e.v), <<>>) ELSE <<>>

\* ------------------------------------------------------- the reductions

\* A variant of reduce_fn that forgets the empty lines of its left operand.
reduce_fn_drop(a, b) ==
  [lines_of_code |-> a.lines_of_code + b.lines_of_code,
   empty_lines |-> b.empty_lines]

\* reduce_fn of count_lines
reduce_fn(a, b) ==
  [lines_of_code |-> a.lines_of_code + b.lines_of_code,
   empty_lines |-> a.empty_lines + b.empty_lines]

\* HashMap::new
EmptyMap == [k \in {} |-> ResultsNew]

\* A variant of reduce_fn_ext whose and_modify adds lines_of_code only.
reduce_fn_ext_loc(map, new_ext, new_res) ==
  IF new_ext \in DOMAIN map
  THEN [map EXCEPT ![new_ext] =
          [lines_of_code |-> @.lines_of_code + new_res.lines_of_code,
           empty_lines |-> @.empty_lines]]
  ELSE [k \in DOMAIN map \cup {new_ext} |->
          IF k = new_ext THEN new_res ELSE map[k]]

\* A variant of reduce_fn_ext that leaves out a file without counted lines.
reduce_fn_ext_nonzero(map, new_ext, new_res) ==
  IF new_res = ResultsNew THEN map
  ELSE IF new_ext \in DOMAIN map
  THEN [map EXCEPT ![new_ext] =
          [lines_of_code |-> @.lines_of_code + new_res.lines_of_code,
           empty_lines |-> @.empty_lines + new_res.empty_lines]]
  ELSE [k \in DOMAIN map \cup {new_ext} |->
          IF k = new_ext THEN new_res ELSE map[k]]

\* A variant of reduce_fn_ext without and_modify: entry(new_ext).or_insert(..)
reduce_fn_ext_first(map, new_ext, new_res) ==
  IF new_ext \in DOMAIN map THEN map
  ELSE [k \in DOMAIN map \cup {new_ext} |->
          IF k = new_ext THEN new_res ELSE map[k]]

\* reduce_fn of count_lines_by_ext: entry(new_ext).and_modify(..).or_insert(..)
reduce_fn_ext(map, new_ext, new_res) ==
  IF new_ext \in DOMAIN map
  THEN [map EXCEPT ![new_ext] =
          [lines_of_code |-> @.lines_of_code + new_res.lines_of_code,
           empty_lines |-> @.empty_lines + new_res.empty_lines]]
  ELSE [k \in DOMAIN map \cup {new_ext} |->
          IF k = new_ext THEN new_res ELSE map[k]]

\* A variant of MergeMaps that inserts the entries of b over those of a.
MergeMapsOverwrite(a, b, ord) ==
  [k \in DOMAIN a \cup DOMAIN b |-> IF k \in DOMAIN b THEN b[k] ELSE a[k]]

\* The reduce closure of count_lines_by_ext: every entry of b goes through
\* reduce_fn into a, in the order ord in which b.into_iter() yields its keys.
RECURSIVE MergeMaps(_, _, _)
MergeMaps(a, b, ord) ==
  IF ord = <<>> THEN a
  ELSE MergeMaps(reduce_fn_ext(a, Head(ord), b[Head(ord)]), b, Tail(ord))

\* The orders in which a HashMap with the key set S may be iterated.
RECURSIVE Orders(_)
Orders(S) ==
  IF S = {} THEN {<<>>}
  ELSE UNION {{<<k>> \o o : o \in Orders(S \ {k})} : k \in S}

\* ------------------------------------------------------ the file system

\* File names by node: names are unique within a directory.
NameTable ==
  << <<"d">>, <<"a", ".", "t">>, <<"b", ".", "t">>, <<"R">>,
     <<"c", ".", "T">>, <<".", "t">> >>

NodeName(n) == NameTable[((n - 1) % Len(NameTable)) + 1]

\* The file contents considered: lines of both kinds with an unterminated
\* last line, a single line, and three lines followed by a failing read.
Contents ==
  { <<"x", "NL", "NL", "SP">>,
    <<"x", "NL">>,
    <<"x", "NL", "x", "NL", "x", "NL", "BAD">> }

\* A node: ok says that read_dir (a directory) or File::open (a file)
\* succeeds; parent is 0 for the root.
DirNodes(ps) == [kind : {"dir"}, parent : ps, ok : BOOLEAN, data : {<<>>}]

FileNodes(ps) ==
  [kind : {"file"}, parent : ps, ok : {TRUE}, data : Contents]
    \cup [kind : {"file"}, parent : ps, ok : {FALSE}, data : {<<>>}]

\* The trees of n nodes, numbered breadth first, so that a directory's
\* entries in read_dir order are its children by ascending number.
RECURSIVE TreesOf(_)
TreesOf(n) ==
  IF n = 1
  THEN {<<r>> : r \in DirNodes({0})
                  \cup [kind : {"file"}, parent : {0}, ok : {TRUE}, data : {<<>>}]}
  ELSE UNION {{Append(t, r) :
                 r \in LET ps == {p \in 1..(n - 1) :
                                    /\ t[p].kind = "dir"
                                    /\ (n > 2 => p >= t[n - 1].parent)}
                       IN DirNodes(ps) \cup FileNodes(ps)} :
              t \in TreesOf(n - 1)}

\* The entries read_dir yields for directory d, in order.
RECURSIVE EntriesFrom(_, _, _)
EntriesFrom(t, d, n) ==
  IF n > Len(t) THEN <<>>
  ELSE IF t[n].parent = d THEN <<n>> \o EntriesFrom(t, d, n + 1)
  ELSE EntriesFrom(t, d, n + 1)

Entries(d) == EntriesFrom(fs, d, 2)

\* Path::is_dir
IsDir(n) == fs[n].kind = "dir"

\* File::open(path) succeeds for the file at position p of the list.
CanOpen(p) == fs[files[p]].ok

FileData(p) == fs[files[p]].data

\* count_lines_in_file of every file content considered, computed once.
FileCounts == [b \in Contents |-> count_lines_in_file(b)]

\* count_lines_in_file(&files[p]) for a file that opens.
CountsOfFile(p) == FileCounts[FileData(p)]

\* ------------------------------------------- count_lines, count_lines_by_ext

\* A variant of Identity that starts from one counted line, by extension
\* under the empty key.
IdentityCounted ==
  IF by_ext THEN [k \in {<<>>} |-> [lines_of_code |-> 1, empty_lines |-> 0]]
  ELSE [lines_of_code |-> 1, empty_lines |-> 0]

\* Results::new() or HashMap::new(): where every fold and reduce starts.
Identity == IF by_ext THEN EmptyMap ELSE ResultsNew

\* The map closure: count_lines_in_file, paired with get_ext by extension.
MapItem(p) ==
  IF by_ext
  THEN [ext |-> get_ext(NodeName(files[p])),
        res |-> CountsOfFile(p)]
  ELSE CountsOfFile(p)

\* The fold closure applied to the accumulator a and one mapped item.
FoldItem(a, it) ==
  IF by_ext THEN reduce_fn_ext(a, it.ext, it.res) ELSE reduce_fn(a, it)

\* The sequential branch of count_lines, iter().map(..).fold(..), on the
\* files p..n of a list whose files all open, from the accumulator a.
RECURSIVE count_lines_seq(_, _, _)
count_lines_seq(a, p, n) ==
  IF p > n THEN a
  ELSE count_lines_seq(reduce_fn(a, CountsOfFile(p)), p + 1, n)

\* The sequential branch of count_lines_by_ext, likewise.
RECURSIVE count_lines_by_ext_seq(_, _, _)
count_lines_by_ext_seq(a, p, n) ==
  IF p > n THEN a
  ELSE count_lines_by_ext_seq(
         reduce_fn_ext(a, get_ext(NodeName(files[p])),
                       CountsOfFile(p)), p + 1, n)

\* rayon's reduce of two partial results, left then right.
ReduceOp(a, b, ord) ==
  IF by_ext THEN MergeMaps(a, b, ord) ELSE reduce_fn(a, b)

KeyOrders(b) == IF by_ext THEN Orders(DOMAIN b) ELSE {<<>>}

\* A variant of UsesPool that tests threads >= 1.
UsesPoolFromOne(t) == t >= 1

\* args.threads > 1: the pool is built and the par_iter branches are taken.
UsesPool(t) == t > 1

\* Where rayon splits a piece lo..hi-1 in two.
SplitPoint(lo, hi) == lo + ((hi - lo) \div 2)

\* A piece of the list: the files lo..hi-1, the next one to map, the
\* partial result, how many joins produced it, and the worker that is in
\* the middle of the piece (0: none; the result of a finished piece lies
\* in the result slot of its join).
NewSeg(lo, hi) ==
  [lo |-> lo, hi |-> hi, next |-> lo, st |-> "new", acc |-> Identity,
   joins |-> 0, w |-> 0]

\* The workers of the global pool: num_threads(args.threads).
Workers == 1..threads

\* The workers that are not in the middle of a piece: neither inside
\* count_lines_in_file nor between two files of a piece.
IdleWorkers ==
  {k \in Workers :
     \A i \in 1..Len(segs) :
       ~(segs[i].st \in {"run", "read"} /\ segs[i].w = k)}

\* A variant of CanRun that lets any worker go on with any piece.
CanRunAny(sg, k) == k \in Workers

\* Worker k may take the next file of the piece sg: any idle worker
\* starts a piece no worker has started on, and the folder of a started
\* piece is a local value of the worker that started it, which alone goes
\* on with it.
CanRun(sg, k) == IF sg.st = "new" THEN k \in IdleWorkers ELSE k = sg.w

\* A variant of Finished that does not count a panicked side as returned.
FinishedDoneOnly(sg) == sg.st = "done"

\* rayon's join returns only when both sides have returned or panicked.
Finished(sg) == sg.st \in {"done", "panic"}

\* A variant of JoinSt that resumes the panic of the left side only.
JoinStLeft(l, r) == IF l.st = "panic" THEN "panic" ELSE "done"

\* The outcome of a join: a panic of either side is resumed.
JoinSt(l, r) == IF l.st = "panic" \/ r.st = "panic" THEN "panic" ELSE "done"

Terminated == pc \in {"done", "aborted"}

\* --------------------------------------------------------- find_all_files

\* A variant of PushFrame that queues the call behind the running ones.
PushFrameBottom(stk, fr) == <<fr>> \o stk

\* A recursive call pushes its frame on the call stack (top at the end).
PushFrame(stk, fr) == Append(stk, fr)

Top == stack[Len(stack)]

TopEntries == Entries(Top.dir)

Advance(stk) == [stk EXCEPT ![Len(stk)].idx = @ + 1]

\* main calls find_all_files on a root that is not a directory.
FindRootNotDir ==
  /\ pc = "start" /\ ~IsDir(1)
  /\ pc' = "pool"
  /\ steps' = steps + 1
  /\ UNCHANGED <<fs, threads, by_ext, stack, files, pool, segs, acc, cur,
                 nclass, last, fatal, late, res, out, arg, ret>>

\* main calls find_all_files on a readable directory.
FindRootEnter ==
  /\ pc = "start" /\ IsDir(1) /\ fs[1].ok
  /\ stack' = PushFrame(stack, [dir |-> 1, idx |-> 1])
  /\ pc' = "find"
  /\ steps' = steps + 1
  /\ UNCHANGED <<fs, threads, by_ext, files, pool, segs, acc, cur,
                 nclass, last, fatal, late, res, out, arg, ret>>

\* The entry is not a directory: files.push(curr_path).
FindFile ==
  /\ pc = "find" /\ Top.idx <= Len(TopEntries)
  /\ ~IsDir(TopEntries[Top.idx])
  /\ files' = Append(files, TopEntries[Top.idx])
  /\ stack' = Advance(stack)
  /\ steps' = steps + 1
  /\ UNCHANGED <<fs, threads, by_ext, pc, pool, segs, acc, cur,
                 nclass, last, fatal, late, res, out, arg, ret>>

\* The entry is a readable directory: the recursive call.
FindDescend ==
  /\ pc = "find" /\ Top.idx <= Len(TopEntries)
  /\ IsDir(TopEntries[Top.idx]) /\ fs[TopEntries[Top.idx]].ok
  /\ stack' = PushFrame(Advance(stack), [dir |-> TopEntries[Top.idx], idx |-> 1])
  /\ steps' = steps + 1
  /\ UNCHANGED <<fs, threads, by_ext, pc, files, pool, segs, acc, cur,
                 nclass, last, fatal, late, res, out, arg, ret>>

\* The for loop of a call is over: it returns, the last one to main.
FindReturn ==
  /\ pc = "find" /\ Top.idx > Len(TopEntries)
  /\ stack' = SubSeq(stack, 1, Len(stack) - 1)
  /\ pc' = IF Len(stack) = 1 THEN "pool" ELSE "find"
  /\ steps' = steps + 1
  /\ UNCHANGED <<fs, threads, by_ext, files, pool, segs, acc, cur,
                 nclass, last, fatal, late, res, out, arg, ret>>

\* fs::read_dir fails: expect("Failed to read path") panics in main.
FindPanic ==
  /\ \/ pc = "start" /\ IsDir(1) /\ ~fs[1].ok
     \/ /\ pc = "find" /\ Top.idx <= Len(TopEntries)
        /\ IsDir(TopEntries[Top.idx]) /\ ~fs[TopEntries[Top.idx]].ok
  /\ pc' = "aborted"
  /\ fatal' = TRUE
  /\ steps' = steps + 1
  /\ UNCHANGED <<fs, threads, by_ext, stack, files, pool, segs, acc, cur,
                 nclass, last, late, res, out, arg, ret>>

\* ------------------------------------------------------ the rayon pool

\* threads > 1: ThreadPoolBuilder::build_global
BuildPool ==
  /\ pc = "pool" /\ UsesPool(threads)
  /\ pool' = pool + 1
  /\ pc' = "count"
  /\ steps' = steps + 1
  /\ UNCHANGED <<fs, threads, by_ext, stack, files, segs, acc, cur,
                 nclass, last, fatal, late, res, out, arg, ret>>

SkipPool ==
  /\ pc = "pool" /\ ~UsesPool(threads)
  /\ pc' = "count"
  /\ steps' = steps + 1
  /\ UNCHANGED <<fs, threads, by_ext, stack, files, pool, segs, acc, cur,
                 nclass, last, fatal, late, res, out, arg, ret>>

\* ---------------------------------------------------- sequential branch

SeqBegin ==
  /\ pc = "count" /\ ~UsesPool(threads)
  /\ acc' = Some(Identity)
  /\ nclass' = [p \in 1..Len(files) |-> 0]
  /\ pc' = "seq_map"
  /\ steps' = steps + 1
  /\ UNCHANGED <<fs, threads, by_ext, stack, files, pool, segs, cur,
                 last, fatal, late, res, out, arg, ret>>

\* The iterator has a next file and File::open succeeds on it.
SeqClassifyReady == pc = "seq_map" /\ last < Len(files) /\ CanOpen(last + 1)

\* The iterator maps the next file: it opens and is counted.
SeqClassify ==
  /\ SeqClassifyReady
  /\ cur' = Some(MapItem(last + 1))
  /\ last' = last + 1
  /\ nclass' = [nclass EXCEPT ![last + 1] = @ + 1]
  /\ pc' = "seq_fold"
  /\ steps' = steps + 1
  /\ UNCHANGED <<fs, threads, by_ext, stack, files, pool, segs, acc,
                 fatal, late, res, out, arg, ret>>

\* File::open fails: expect("Unable to open file") panics in main.
SeqPanic ==
  /\ pc = "seq_map" /\ last < Len(files) /\ ~CanOpen(last + 1)
  /\ pc' = "aborted"
  /\ fatal' = TRUE
  /\ steps' = steps + 1
  /\ UNCHANGED <<fs, threads, by_ext, stack, files, pool, segs, acc, cur,
                 nclass, last, late, res, out, arg, ret>>

\* fold applies reduce_fn to the accumulator and the mapped item.
SeqFoldStep ==
  /\ pc = "seq_fold"
  /\ acc' = Some(FoldItem(acc.v, cur.v))
  /\ cur' = None
  /\ pc' = "seq_map"
  /\ steps' = steps + 1
  /\ UNCHANGED <<fs, threads, by_ext, stack, files, pool, segs,
                 nclass, last, fatal, late, res, out, arg, ret>>

\* The iterator is exhausted: the accumulator is returned to main.
SeqEnd ==
  /\ pc = "seq_map" /\ last = Len(files)
  /\ res' = acc
  /\ pc' = "print"
  /\ steps' = steps + 1
  /\ UNCHANGED <<fs, threads, by_ext, stack, files, pool, segs, acc, cur,
                 nclass, last, fatal, late, out, arg, ret>>

\* ------------------------------------------------------ parallel branch

Replace(sq, i, n, new) == SubSeq(sq, 1, i - 1) \o new \o SubSeq(sq, i + n, Len(sq))

\* par_iter: the whole list is one piece, not yet given to a worker.
ParBegin ==
  /\ pc = "count" /\ UsesPool(threads)
  /\ segs' = <<NewSeg(1, Len(files) + 1)>>
  /\ nclass' = [p \in 1..Len(files) |-> 0]
  /\ pc' = "par"
  /\ steps' = steps + 1
  /\ UNCHANGED <<fs, threads, by_ext, stack, files, pool, acc, cur,
                 last, fatal, late, res, out, arg, ret>>

\* rayon splits a piece no worker has started on; whether it does depends
\* on the thread count and on work stealing, so every choice is allowed.
ParSplit(i) ==
  /\ pc = "par" /\ segs[i].st = "new" /\ segs[i].hi - segs[i].lo >= 2
  /\ LET mid == SplitPoint(segs[i].lo, segs[i].hi)
     IN segs' = Replace(segs, i, 1,
                        <<NewSeg(segs[i].lo, mid), NewSeg(mid, segs[i].hi)>>)
  /\ steps' = steps + 1
  /\ UNCHANGED <<fs, threads, by_ext, pc, stack, files, pool, acc, cur,
                 nclass, last, fatal, late, res, out, arg, ret>>

\* A worker takes the next file of a piece: File::open succeeds and the
\* worker is inside count_lines_in_file until it has read the file.
ParOpen(i) ==
  /\ pc = "par" /\ segs[i].st \in {"new", "run"}
  /\ segs[i].next < segs[i].hi /\ CanOpen(segs[i].next)
  /\ \E k \in Workers :
       /\ CanRun(segs[i], k)
       /\ segs' = [segs EXCEPT ![i].st = "read", ![i].w = k]
  /\ late' = (late \/ fatal)
  /\ steps' = steps + 1
  /\ UNCHANGED <<fs, threads, by_ext, pc, stack, files, pool, acc, cur,
                 nclass, last, fatal, res, out, arg, ret>>

\* The worker of piece i is inside count_lines_in_file.
ParStepReady(i) == pc = "par" /\ segs[i].st = "read"

\* The worker of a piece has read its file: the counts are returned and
\* folded into the piece's accumulator.  After the last file the piece is
\* complete; by extension the folded map then goes through the reduce
\* closure into a new map.
ParStep(i) ==
  /\ ParStepReady(i)
  /\ LET p == segs[i].next
         a == FoldItem(segs[i].acc, MapItem(p))
     IN /\ IF p + 1 = segs[i].hi
           THEN \E ord \in KeyOrders(a) :
                  segs' = [segs EXCEPT
                             ![i].next = p + 1, ![i].st = "done",
                             ![i].w = 0,
                             ![i].acc = IF by_ext
                                        THEN ReduceOp(Identity, a, ord)
                                        ELSE a]
           ELSE segs' = [segs EXCEPT ![i].next = p + 1, ![i].st = "run",
                                     ![i].acc = a]
        /\ nclass' = [nclass EXCEPT ![p] = @ + 1]
  /\ steps' = steps + 1
  /\ UNCHANGED <<fs, threads, by_ext, pc, stack, files, pool, acc, cur,
                 last, fatal, late, res, out, arg, ret>>

\* File::open fails in a worker: the panic is caught by rayon and kept
\* until the pieces are joined.
ParPanic(i) ==
  /\ pc = "par" /\ segs[i].st \in {"new", "run"}
  /\ segs[i].next < segs[i].hi /\ ~CanOpen(segs[i].next)
  /\ \E k \in Workers :
       /\ CanRun(segs[i], k)
       /\ segs' = [segs EXCEPT ![i].st = "panic", ![i].w = 0,
                               ![i].acc = Identity]
  /\ fatal' = TRUE
  /\ steps' = steps + 1
  /\ UNCHANGED <<fs, threads, by_ext, pc, stack, files, pool, acc, cur,
                 nclass, last, late, res, out, arg, ret>>

\* An empty list: the only piece completes with the identity.
ParEmpty(i) ==
  /\ pc = "par" /\ segs[i].st = "new" /\ segs[i].lo = segs[i].hi
  /\ \E k \in Workers :
       /\ CanRun(segs[i], k)
       /\ segs' = [segs EXCEPT ![i].st = "done"]
  /\ steps' = steps + 1
  /\ UNCHANGED <<fs, threads, by_ext, pc, stack, files, pool, acc, cur,
                 nclass, last, fatal, late, res, out, arg, ret>>

\* Two neighbouring pieces are joined once both have finished: a worker
\* that is not in the middle of a piece takes both results and reduces
\* them, or the panic of either is propagated.
ParMerge(i) ==
  /\ pc = "par" /\ i < Len(segs)
  /\ Finished(segs[i]) /\ Finished(segs[i + 1])
  /\ IdleWorkers # {}
  /\ LET l == segs[i]
         r == segs[i + 1]
         j == [lo |-> l.lo, hi |-> r.hi, next |-> r.hi, st |-> JoinSt(l, r),
               acc |-> Identity, joins |-> l.joins + r.joins + 1,
               w |-> 0]
     IN IF j.st = "panic"
        THEN segs' = Replace(segs, i, 2, <<j>>)
        ELSE \E ord \in KeyOrders(r.acc) :
               segs' = Replace(segs, i, 2,
                         <<[j EXCEPT !.acc = ReduceOp(l.acc, r.acc, ord)]>>)
  /\ steps' = steps + 1
  /\ UNCHANGED <<fs, threads, by_ext, pc, stack, files, pool, acc, cur,
                 nclass, last, fatal, late, res, out, arg, ret>>

\* The reduce returns its value to main.
ParEnd ==
  /\ pc = "par" /\ Len(segs) = 1 /\ segs[1].st = "done"
  /\ res' = Some(segs[1].acc)
  /\ segs' = <<>>
  /\ pc' = "print"
  /\ steps' = steps + 1
  /\ UNCHANGED <<fs, threads, by_ext, stack, files, pool, acc, cur,
                 nclass, last, fatal, late, out, arg, ret>>

\* The reduce resumes a worker's panic in main.
ParAbort ==
  /\ pc = "par" /\ Len(segs) = 1 /\ segs[1].st = "panic"
  /\ pc' = "aborted"
  /\ steps' = steps + 1
  /\ UNCHANGED <<fs, threads, by_ext, stack, files, pool, segs, acc, cur,
                 nclass, last, fatal, late, res, out, arg, ret>>

\* ------------------------------------------------------------ printing

\* A variant of percent_empty that yields 0 when there is no line at all.
percent_empty_guarded(r) ==
  IF r.lines_of_code + r.empty_lines = 0
  THEN [nan |-> FALSE, num |-> 0, den |-> 1]
  ELSE [nan |-> FALSE, num |-> r.empty_lines * 100,
        den |-> r.lines_of_code + r.empty_lines]

\* Results::percent_empty: the f64 quotient times 100, kept as an exact
\* fraction; 0.0 / 0.0 is NaN.
percent_empty(r) ==
  IF r.lines_of_code + r.empty_lines = 0
  THEN [nan |-> TRUE, num |-> 0, den |-> 0]
  ELSE [nan |-> FALSE, num |-> r.empty_lines * 100,
        den |-> r.lines_of_code + r.empty_lines]

\* The k-th println! of a group of three, for the extension e and counts r.
Line(k, e, r) ==
  [ext |-> e,
   kind |-> <<"code", "empty", "percent">>[k],
   val |-> IF k = 1 THEN [nan |-> FALSE, num |-> r.lines_of_code, den |-> 1]
           ELSE IF k = 2 THEN [nan |-> FALSE, num |-> r.empty_lines, den |-> 1]
           ELSE percent_empty(r)]

PrintedKeys == {out[i].ext.v : i \in {j \in 1..Len(out) : out[j].ext.some}}

ToPrint == IF by_ext THEN 3 * Cardinality(DOMAIN res.v) ELSE 3

\* One println!.  By extension the groups follow the iteration order of
\* the HashMap, which is any order of its keys.
PrintLine ==
  /\ pc = "print" /\ Len(out) < ToPrint
  /\ LET k == (Len(out) % 3) + 1
     IN IF ~by_ext
        THEN out' = Append(out, Line(k, None, res.v))
        ELSE IF k > 1
        THEN out' = Append(out, Line(k, out[Len(out)].ext,
                                     res.v[out[Len(out)].ext.v]))
        ELSE \E e \in DOMAIN res.v \ PrintedKeys :
               out' = Append(out, Line(k, Some(e), res.v[e]))
  /\ steps' = steps + 1
  /\ UNCHANGED <<fs, threads, by_ext, pc, stack, files, pool, segs, acc, cur,
                 nclass, last, fatal, late, res, arg, ret>>

\* main returns after the last println!.
MainReturn ==
  /\ pc = "print" /\ Len(out) = ToPrint
  /\ pc' = "done"
  /\ steps' = steps + 1
  /\ UNCHANGED <<fs, threads, by_ext, stack, files, pool, segs, acc, cur,
                 nclass, last, fatal, late, res, out, arg, ret>>

\* ------------------------------------------------------ specification

Trees == UNION {TreesOf(n) : n \in 1..MaxNodes}

\* The values of --threads considered: the program only tests threads > 1.
ThreadCounts == {0, 1, 2}

Init ==
  /\ fs \in Trees
  /\ threads \in ThreadCounts
  /\ by_ext \in BOOLEAN
  /\ pc = "start"
  /\ stack = <<>>
  /\ files = <<>>
  /\ pool = 0
  /\ segs = <<>>
  /\ acc = None
  /\ cur = None
  /\ nclass = <<>>
  /\ last = 0
  /\ fatal = FALSE
  /\ late = FALSE
  /\ res = None
  /\ out = <<>>
  /\ steps = 0
  /\ arg = <<>>
  /\ ret = None

\* The steps that return the counts of no file.
OtherSteps ==
  \/ FindRootNotDir
  \/ FindRootEnter
  \/ FindFile
  \/ FindDescend
  \/ FindReturn
  \/ FindPanic
  \/ BuildPool
  \/ SkipPool
  \/ SeqBegin
  \/ SeqPanic
  \/ SeqFoldStep
  \/ SeqEnd
  \/ ParBegin
  \/ \E i \in 1..Len(segs) : ParSplit(i)
  \/ \E i \in 1..Len(segs) : ParOpen(i)
  \/ \E i \in 1..Len(segs) : ParPanic(i)
  \/ \E i \in 1..Len(segs) : ParEmpty(i)
  \/ \E i \in 1..Len(segs) : ParMerge(i)
  \/ ParEnd
  \/ ParAbort
  \/ PrintLine
  \/ MainReturn

Next ==
  \/ OtherSteps
  \/ SeqClassify
  \/ \E i \in 1..Len(segs) : ParStep(i)

Spec == Init /\ [][Next]_vars

\* ----------------------------------- specifications of the pure functions

\* Nothing of a run exists while a function is applied on its own.
NoRun ==
  /\ fs = <<>> /\ threads = 0 /\ by_ext = FALSE /\ pc = "fn"
  /\ stack = <<>> /\ files = <<>> /\ pool = 0 /\ segs = <<>>
  /\ acc = None /\ cur = None /\ nclass = <<>> /\ last = 0
  /\ fatal = FALSE /\ late = FALSE /\ res = None /\ out = <<>>
  /\ steps = 0

RECURSIVE SeqsUpTo(_, _)
SeqsUpTo(S, n) ==
  IF n = 0 THEN {<<>>}
  ELSE LET shorter == SeqsUpTo(S, n - 1)
       IN shorter \cup {Append(q, c) : q \in shorter, c \in S}

\* count_lines_in_file applied to any file of at most MaxBytes bytes.
InitClassify ==
  /\ NoRun
  /\ arg \in SeqsUpTo(ContentChars, MaxBytes)
  /\ ret = None

ClassifyCall ==
  /\ pc = "fn" /\ ~ret.some
  /\ ret' = Some(count_lines_in_file(arg))
  /\ UNCHANGED <<fs, threads, by_ext, pc, stack, files, pool, segs, acc, cur,
                 nclass, last, fatal, late, res, out, steps, arg>>

NextClassify == ClassifyCall

SpecClassify == InitClassify /\ [][NextClassify]_vars

\* The file names read_dir can yield: not empty, not "." and not "..".
FileNames ==
  SeqsUpTo(NameChars, MaxNameLen) \ {<<>>, <<".">>, <<".", ".">>}

\* get_ext applied to any file name of at most MaxNameLen characters.
InitExt ==
  /\ NoRun
  /\ arg \in FileNames
  /\ ret = None

ExtCall ==
  /\ pc = "fn" /\ ~ret.some
  /\ ret' = Some(get_ext(arg))
  /\ UNCHANGED <<fs, threads, by_ext, pc, stack, files, pool, segs, acc, cur,
                 nclass, last, fatal, late, res, out, steps, arg>>

NextExt == ExtCall

SpecExt == InitExt /\ [][NextExt]_vars

\* The extension keys of the partial maps considered.
MergeKeys == {<<>>, <<"t">>}

\* The counts an entry of a partial map may hold.
EntryValues ==
  {r \in [lines_of_code : 0..MaxCount, empty_lines : 0..MaxCount] :
     r.lines_of_code + r.empty_lines <= MaxCount}

\* The HashMap<String, Results> values considered.
PartialMaps == UNION {[S -> EntryValues] : S \in SUBSET MergeKeys}

\* The reduce closure of count_lines_by_ext applied to partial maps a, b, c.
InitMerge ==
  /\ NoRun
  /\ arg \in PartialMaps \X PartialMaps \X PartialMaps
  /\ ret = None

\* The closure is applied in both orders, in both groupings and with the
\* empty map on either side; each b.into_iter() yields its keys in some
\* order.
MergeCall ==
  /\ pc = "fn" /\ ~ret.some
  /\ LET a == arg[1]
         b == arg[2]
         c == arg[3]
     IN \E oa \in Orders(DOMAIN a), ob \in Orders(DOMAIN b),
           oc \in Orders(DOMAIN c) :
          LET ab == MergeMaps(a, b, ob)
              bc == MergeMaps(b, c, oc)
          IN \E obc \in Orders(DOMAIN bc) :
               ret' = Some([ab |-> ab,
                            ba |-> MergeMaps(b, a, oa),
                            ab_c |-> MergeMaps(ab, c, oc),
                            a_bc |-> MergeMaps(a, bc, obc),
                            a_e |-> MergeMaps(a, EmptyMap, <<>>),
                            e_a |-> MergeMaps(EmptyMap, a, oa)])
  /\ UNCHANGED <<fs, threads, by_ext, pc, stack, files, pool, segs, acc, cur,
                 nclass, last, fatal, late, res, out, steps, arg>>

NextMerge == MergeCall

SpecMerge == InitMerge /\ [][NextMerge]_vars

\* ================================================================ claims

\* What the claims are stated with, written without the model's operators.

Completed == pc \in {"print", "done"}

AfterDiscovery ==
  pc \in {"pool", "count", "seq_map", "seq_fold", "par", "print", "done"}

\* Reading the bytes b fails at some line.
ReadFails(b) == \E i \in 1..Len(b) : b[i] = "BAD"

\* The positions at which a line of b begins, and where that line ends
\* (its terminator, or one past the last byte).
LineStarts(b) == {i \in 1..Len(b) : i = 1 \/ b[i - 1] = "NL"}

LineEnd(b, s) ==
  LET ends == {j \in s..Len(b) : b[j] = "NL"} \cup {Len(b) + 1}
  IN CHOOSE j \in ends : \A k \in ends : j <= k

BlankLine(b, s) ==
  \A j \in s..(LineEnd(b, s) - 1) : b[j] \in {"SP", "TAB", "CR"}

RECURSIVE SumOver(_, _)
SumOver(m, keys) ==
  IF keys = {} THEN [lines_of_code |-> 0, empty_lines |-> 0]
  ELSE LET k == CHOOSE x \in keys : TRUE
           r == SumOver(m, keys \ {k})
       IN [lines_of_code |-> r.lines_of_code + m[k].lines_of_code,
           empty_lines |-> r.empty_lines + m[k].empty_lines]

\* The field-wise sum of the entries of a result (a result in global mode
\* is its own sum).
TotalStat(r) == IF by_ext THEN SumOver(r, DOMAIN r) ELSE r

\* The sequential result for the files lo..hi of the list.
SeqRange(lo, hi) ==
  IF by_ext THEN count_lines_by_ext_seq(EmptyMap, lo, hi)
  ELSE count_lines_seq(ResultsNew, lo, hi)

\* C1: with threads > 1 the value returned by count_lines or
\* count_lines_by_ext equals the sequential result for the same list,
\* however the list was split and in whatever order the pieces were joined;
\* so does every partial result for its own files.
C1_ParallelEqualsSequential ==
  threads > 1 =>
    /\ Completed => res.v = SeqRange(1, Len(files))
    /\ pc = "par" =>
         \A i \in 1..Len(segs) :
           segs[i].st = "done" =>
             segs[i].acc = SeqRange(segs[i].lo, segs[i].hi - 1)

C1_Witness ==
  /\ pc = "par" /\ threads > 1 /\ by_ext /\ Len(files) = 3
  /\ Len(segs) = 1 /\ segs[1].st = "done" /\ segs[1].joins = 2
  /\ Cardinality(DOMAIN segs[1].acc) = 2
  /\ \E k \in DOMAIN segs[1].acc : segs[1].acc[k].lines_of_code >= 2

\* C2: the field-wise sum of the by-extension result equals the global
\* result, count_lines, of the same file list.
C2_ExtSumEqualsGlobal ==
  (Completed /\ by_ext) =>
    SumOver(res.v, DOMAIN res.v) = count_lines_seq(ResultsNew, 1, Len(files))

C2_Witness ==
  /\ pc = "done" /\ by_ext /\ Len(files) = 3
  /\ Cardinality(DOMAIN res.v) = 2
  /\ \E k \in DOMAIN res.v :
       res.v[k].lines_of_code >= 2 /\ res.v[k].empty_lines >= 2

\* What a file that opened contributes when a failing read discards it.
Contribution(p) ==
  IF ReadFails(FileData(p)) THEN [lines_of_code |-> 0, empty_lines |-> 0]
  ELSE CountsOfFile(p)

RECURSIVE SumContributions(_)
SumContributions(n) ==
  IF n = 0 THEN [lines_of_code |-> 0, empty_lines |-> 0]
  ELSE LET r == SumContributions(n - 1)
       IN [lines_of_code |-> r.lines_of_code + Contribution(n).lines_of_code,
           empty_lines |-> r.empty_lines + Contribution(n).empty_lines]

\* C3: a file one of whose reads fails is classified as {0,0} whatever was
\* counted before the failure, and the failure is not fatal: the run goes
\* on, a run only aborts where a directory cannot be read or a file cannot
\* be opened, and the completed result holds {0,0} for that file.
C3_ReadFailureCountsZero ==
  /\ (pc = "seq_fold" /\ ReadFails(FileData(last))) =>
       (IF by_ext THEN cur.v.res ELSE cur.v)
         = [lines_of_code |-> 0, empty_lines |-> 0]
  /\ fatal => \E n \in 1..Len(fs) : ~fs[n].ok
  /\ Completed => TotalStat(res.v) = SumContributions(Len(files))

C3_Witness ==
  /\ pc = "done" /\ Len(files) = 3
  /\ FileData(1) = <<"x", "NL", "x", "NL", "x", "NL", "BAD">>
  /\ ~ReadFails(FileData(2)) /\ ~ReadFails(FileData(3))
  /\ TotalStat(res.v) = [lines_of_code |-> 2, empty_lines |-> 2]

\* C4 (as amended): once a fatal error has occurred the run never prints a
\* line and never completes: it is aborted, or, with threads > 1, it is
\* still in the parallel reduction, where the other workers finish their
\* pieces before the panic reaches main.  With threads <= 1 no file is
\* taken after the error.
C4_FatalEmitsNoOutput ==
  fatal =>
    /\ out = <<>>
    /\ pc \in {"par", "aborted"}
    /\ pc = "par" => threads > 1
    /\ threads <= 1 => ~late

C4_Witness ==
  /\ pc = "aborted" /\ fatal /\ late /\ threads > 1 /\ Len(files) = 3
  /\ \E p \in 1..3 : nclass[p] = 1

\* C4 as claimed: a fatal error also stops the whole run at once, so that
\* no worker takes a file after it.
C4_FatalStopsAtOnce ==
  fatal => (out = <<>> /\ pc \in {"par", "aborted"} /\ ~late)

\* The number of lines of the bytes b.
NumLines(b) == Cardinality(LineStarts(b))

RECURSIVE LinesRead(_)
LinesRead(n) ==
  IF n = 0 THEN 0
  ELSE LinesRead(n - 1)
         + (IF ReadFails(FileData(n)) THEN 0 ELSE NumLines(FileData(n)))

\* C5: in the result of a completed run, the counts of all entries add up
\* to the number of lines of the files of the list, a file whose read fails
\* counting for none.
C5_TotalIsLinesRead ==
  Completed =>
    TotalStat(res.v).lines_of_code + TotalStat(res.v).empty_lines
      = LinesRead(Len(files))

C5_Witness ==
  /\ pc = "done" /\ Len(files) = 3 /\ LinesRead(3) >= 5
  /\ \E p \in 1..3 : ReadFails(FileData(p))

\* C6: for a file whose lines are all read, empty_lines is the number of
\* lines made of whitespace only and lines_of_code the number of the other
\* lines; every line, a last one without terminator included, is counted
\* in exactly one of the two.
C6_ClassifyCountsEveryLine ==
  (ret.some /\ ~ReadFails(arg)) =>
    /\ ret.v.empty_lines
         = Cardinality({s \in LineStarts(arg) : BlankLine(arg, s)})
    /\ ret.v.lines_of_code
         = Cardinality({s \in LineStarts(arg) : ~BlankLine(arg, s)})
    /\ ret.v.empty_lines + ret.v.lines_of_code = NumLines(arg)

C6_Witness ==
  /\ ret.some
  /\ arg = <<"x", "NL", "SP", "TAB", "x">>
  /\ ret.v = [lines_of_code |-> 2, empty_lines |-> 0]

\* The part of a name after its last ".", for a name that has one.
HasDot(name) == \E i \in 1..Len(name) : name[i] = "."

AfterLastDot(name) ==
  LET k == CHOOSE i \in 1..Len(name) :
             name[i] = "." /\ \A j \in (i + 1)..Len(name) : name[j] # "."
  IN SubSeq(name, k + 1, Len(name))

\* The only "." of the name is its first character.
DotFile(name) ==
  name[1] = "." /\ \A j \in 2..Len(name) : name[j] # "."

\* C7 (as amended): the extension key is the part of the file name after
\* its last ".", letter case kept, when that "." is not the first character
\* of the name and the part is valid Unicode; it is the empty string for a
\* name without ".", for a name whose only "." is its first character and
\* for a part that is not valid Unicode.
C7_ExtensionKey ==
  ret.some =>
    ret.v = IF ~HasDot(arg) \/ DotFile(arg) THEN <<>>
            ELSE IF \E i \in 1..Len(AfterLastDot(arg)) :
                      AfterLastDot(arg)[i] = "BAD"
                 THEN <<>>
            ELSE AfterLastDot(arg)

C7_Witness ==
  /\ ret.some /\ arg = <<"a", ".", "T">> /\ ret.v = <<"T">>

\* C7 as claimed: after the last "." for every name that has one, empty
\* otherwise.
C7_AfterLastDotAlways ==
  ret.some => ret.v = IF HasDot(arg) THEN AfterLastDot(arg) ELSE <<>>

\* The directories a node lies in, from the root down, and the node itself.
RECURSIVE PathTo(_)
PathTo(n) == IF fs[n].parent = 0 THEN {n} ELSE PathTo(fs[n].parent) \cup {n}

\* The entry of directory a through which node n is reached.
EntryToward(a, n) == CHOOSE c \in PathTo(n) : fs[c].parent = a

IndexIn(sq, x) == CHOOSE i \in 1..Len(sq) : sq[i] = x

\* f comes before g in a depth-first traversal: in the deepest directory
\* that holds both, the entry leading to f is read before the one to g.
DepthFirstBefore(f, g) ==
  LET common == (PathTo(f) \cap PathTo(g)) \ {f, g}
      a == CHOOSE c \in common : \A d \in common : d \in PathTo(c)
  IN IndexIn(Entries(a), EntryToward(a, f))
       < IndexIn(Entries(a), EntryToward(a, g))

\* C8: find_all_files leaves the list empty when the root is not a
\* directory; otherwise, once it has returned, the list holds every
\* non-directory of the tree exactly once, no directory, in depth-first
\* order.
C8_DiscoverDepthFirst ==
  AfterDiscovery =>
    IF ~IsDir(1) THEN files = <<>>
    ELSE /\ {files[i] : i \in 1..Len(files)}
              = {n \in 1..Len(fs) : fs[n].kind = "file"}
         /\ \A i, j \in 1..Len(files) : i # j => files[i] # files[j]
         /\ \A i \in 1..Len(files) : ~IsDir(files[i])
         /\ \A i, j \in 1..Len(files) :
              i < j => DepthFirstBefore(files[i], files[j])

C8_Witness ==
  /\ pc = "pool" /\ Len(files) = 2 /\ Len(fs) = 4
  /\ files[1] > files[2]

\* C9: a run is never stuck before it has completed or aborted, and it
\* takes no more steps than a bound set by the size of the tree; so every
\* run ends, completed or aborted.
C9_RunTerminates ==
  /\ \/ Terminated
     \/ SeqClassifyReady
     \/ \E i \in 1..Len(segs) : ParStepReady(i)
     \/ ENABLED OtherSteps
  /\ steps <= 8 * Len(fs) + 8

C9_Witness ==
  /\ pc = "done" /\ threads > 1 /\ Len(files) = 3 /\ Len(out) = 3

\* C10: the pool is built at most once, only for threads > 1 and before
\* any file is classified; for threads <= 1 there is no pool and no
\* parallel piece, the files classified so far are the first ones of the
\* list, each once, and each is folded into the accumulator before the
\* next one is classified.
C10_SequentialInOrder ==
  /\ pool <= 1
  /\ pool = 1 => threads > 1
  /\ (threads > 1 /\ \E p \in DOMAIN nclass : nclass[p] > 0) => pool = 1
  /\ threads <= 1 =>
       /\ pool = 0 /\ segs = <<>>
       /\ pc \in {"seq_map", "seq_fold", "print", "done"} =>
            nclass = [p \in 1..Len(files) |-> IF p <= last THEN 1 ELSE 0]
       /\ pc = "seq_map" => (~cur.some /\ acc.v = SeqRange(1, last))
       /\ pc = "seq_fold" =>
            (cur.some /\ last >= 1 /\ acc.v = SeqRange(1, last - 1))

C10_Witness ==
  /\ threads = 1 /\ pc = "seq_fold" /\ last = 2 /\ Len(files) = 3
  /\ pool = 0 /\ acc.v # Identity

\* The pieces cut the list into consecutive ranges that share no file.
PiecesPartition(sg) ==
  /\ sg # <<>>
  /\ sg[1].lo = 1 /\ sg[Len(sg)].hi = Len(files) + 1
  /\ \A i \in 1..Len(sg) : sg[i].lo <= sg[i].next /\ sg[i].next <= sg[i].hi
  /\ \A i \in 1..(Len(sg) - 1) : sg[i].hi = sg[i + 1].lo

\* The pieces some worker is in the middle of.
Busy(sg) == {i \in 1..Len(sg) : sg[i].st \in {"run", "read"}}

\* No worker is in the middle of two pieces, and a piece some worker is in
\* the middle of has that one worker.
OneWorkerEach(sg) ==
  /\ \A i \in 1..Len(sg) : i \notin Busy(sg) => sg[i].w = 0
  /\ \A i \in Busy(sg) :
       /\ sg[i].w \in 1..threads
       /\ \A j \in Busy(sg) : j # i => sg[j].w # sg[i].w

\* A step in which a worker takes the next file of piece i: the worker is
\* the one already in the piece, or one that is in no other piece, and the
\* step changes nothing but that piece.
TakesAlone(i) ==
  /\ segs[i].next < segs[i].hi
  /\ segs'[i].w \in 1..threads
  /\ segs[i].st = "run" => segs'[i].w = segs[i].w
  /\ segs[i].st = "new" =>
       \A j \in Busy(segs) : segs[j].w # segs'[i].w
  /\ \A j \in 1..Len(segs) : j # i => segs'[j] = segs[j]
  /\ UNCHANGED <<fs, files, acc, cur, res, out, nclass>>

\* A step that returns the counts of the file at position p: the file is
\* the one the worker of one piece is reading, the step changes that piece
\* alone and leaves it with its worker, and nothing else of the run is
\* written.
ClassifiesAlone(p) ==
  \E i \in 1..Len(segs) :
    /\ segs[i].next = p /\ segs[i].lo <= p /\ p < segs[i].hi
    /\ segs[i].st = "read"
    /\ Len(segs') = Len(segs)
    /\ segs'[i].st \in {"run", "done"}
    /\ segs'[i].st = "run" => segs'[i].w = segs[i].w
    /\ \A j \in 1..Len(segs) : j # i => segs'[j] = segs[j]
    /\ \A q \in DOMAIN nclass : q # p => nclass'[q] = nclass[q]
    /\ UNCHANGED <<fs, files, acc, cur, res, out>>

\* A step that combines two partial results: both belong to pieces whose
\* workers have finished and left them, a worker that is in no piece is
\* there to combine them, and every other piece is left alone.
CombinesAtJoin ==
  \E i \in 1..(Len(segs) - 1) :
    /\ segs[i].st \in {"done", "panic"} /\ segs[i + 1].st \in {"done", "panic"}
    /\ \A j \in {i, i + 1} : segs[j].st = "done" => segs[j].next = segs[j].hi
    /\ segs[i].w = 0 /\ segs[i + 1].w = 0
    /\ \E k \in 1..threads : \A j \in Busy(segs) : segs[j].w # k
    /\ segs'[i].lo = segs[i].lo /\ segs'[i].hi = segs[i + 1].hi
    /\ \A j \in 1..(i - 1) : segs'[j] = segs[j]
    /\ \A j \in (i + 2)..Len(segs) : segs'[j - 1] = segs[j]
    /\ UNCHANGED nclass

\* What a step of the parallel reduction may do.
C11_Step ==
  (pc = "par" /\ threads > 1) =>
    /\ \A p \in DOMAIN nclass :
         /\ nclass'[p] <= 1
         /\ nclass'[p] # nclass[p] => ClassifiesAlone(p)
    /\ Len(segs') = Len(segs) =>
         \A i \in 1..Len(segs) :
           (segs[i].st \in {"new", "run"} /\ segs'[i].st = "read")
             => TakesAlone(i)
    /\ Len(segs') < Len(segs) => (pc' # "par" \/ CombinesAtJoin)
    /\ pc' = "par" => (PiecesPartition(segs') /\ OneWorkerEach(segs'))
    /\ pc' = "par" =>
         \A i \in 1..Len(segs') :
           segs'[i].st \in {"new", "run", "read", "done"} =>
             \A p \in segs'[i].lo..(segs'[i].hi - 1) :
               nclass'[p] = IF p < segs'[i].next THEN 1 ELSE 0
    /\ pc' = "print" => \A p \in DOMAIN nclass : nclass'[p] = 1

\* C11: in the parallel reduction every file is classified exactly once, by
\* the one worker of its piece, in steps that write that piece and nothing
\* another worker holds; no worker is in two pieces and no piece has two
\* workers, also while several workers read their files at the same time;
\* and partial results are only combined when the workers of both pieces
\* have finished.
C11_WorkersShareNothing == [][C11_Step]_vars

C11_Witness ==
  /\ pc = "par" /\ threads > 1 /\ Len(files) = 3 /\ Len(segs) = 3
  /\ segs[1].st = "read" /\ segs[2].st = "done" /\ segs[3].st = "read"
  /\ segs[1].w # 0 /\ segs[3].w # 0 /\ segs[1].w # segs[3].w
  /\ nclass = <<0, 1, 0>>

\* C12: when the file list is empty (the root is not a directory, or the
\* tree under it holds no file), count_lines returns {0,0} and
\* count_lines_by_ext a map without keys, for every thread count; nothing
\* is classified and no fatal error occurs.
C12_EmptyListIsIdentity ==
  (AfterDiscovery /\ files = <<>>) =>
    /\ ~fatal
    /\ \A p \in DOMAIN nclass : nclass[p] = 0
    /\ Completed =>
         IF by_ext THEN DOMAIN res.v = {}
         ELSE res.v = [lines_of_code |-> 0, empty_lines |-> 0]

C12_Witness ==
  /\ pc = "done" /\ files = <<>> /\ threads > 1 /\ by_ext
  /\ Len(fs) = 4 /\ fs[1].kind = "dir"
  /\ res.some /\ DOMAIN res.v = {} /\ out = <<>>

ZeroTotal(r) == r.lines_of_code + r.empty_lines = 0

\* The counts a completed run prints, each with the extension it prints
\* them for (none in global mode).
Printed ==
  IF by_ext
  THEN {[ext |-> [some |-> TRUE, v |-> e], st |-> res.v[e]] :
          e \in DOMAIN res.v}
  ELSE {[ext |-> [some |-> FALSE], st |-> res.v]}

\* The three lines of counts that are all zero stand in the output, one
\* after the other, the percentage being not a number.
ThreeLinesOfZero(e) ==
  \E i \in 1..(Len(out) - 2) :
    /\ out[i] = [ext |-> e, kind |-> "code",
                 val |-> [nan |-> FALSE, num |-> 0, den |-> 1]]
    /\ out[i + 1] = [ext |-> e, kind |-> "empty",
                     val |-> [nan |-> FALSE, num |-> 0, den |-> 1]]
    /\ out[i + 2].ext = e /\ out[i + 2].kind = "percent"
    /\ out[i + 2].val.nan

\* C13: a run whose result holds counts with lines_of_code + empty_lines = 0
\* does not fail on the division: no fatal error occurs, while it prints it
\* always has a next step, and when main has returned the three lines of
\* those counts are printed, the percentage being 0.0 / 0.0, not a number.
C13_ZeroTotalStillPrints ==
  Completed =>
    \A x \in Printed :
      ZeroTotal(x.st) =>
        /\ ~fatal
        /\ pc = "print" => ENABLED (PrintLine \/ MainReturn)
        /\ pc = "done" => ThreeLinesOfZero(x.ext)

C13_Witness ==
  /\ pc = "done" /\ by_ext /\ threads > 1 /\ Len(out) = 6
  /\ \E e \in DOMAIN res.v : ZeroTotal(res.v[e])
  /\ \E e \in DOMAIN res.v : ~ZeroTotal(res.v[e])
  /\ \E i \in 1..6 : out[i].val.nan

\* C14: the merge of two partial maps gives the same map in both orders and
\* in both groupings of three maps, whatever the order in which the entries
\* of the right operand are taken, and merging with the empty map on either
\* side changes nothing; the merged map holds the keys of both operands.
C14_MergeIsCommutativeMonoid ==
  ret.some =>
    /\ ret.v.ab = ret.v.ba
    /\ ret.v.ab_c = ret.v.a_bc
    /\ ret.v.a_e = arg[1]
    /\ ret.v.e_a = arg[1]
    /\ DOMAIN ret.v.ab = DOMAIN arg[1] \cup DOMAIN arg[2]

C14_Witness ==
  /\ ret.some
  /\ arg[1] = [k \in {<<"t">>} |-> [lines_of_code |-> 1, empty_lines |-> 0]]
  /\ arg[2] = [k \in {<<>>, <<"t">>} |->
                 [lines_of_code |-> 0, empty_lines |-> 1]]
  /\ DOMAIN arg[3] = {<<>>}
  /\ ret.v.ba[<<"t">>] = [lines_of_code |-> 1, empty_lines |-> 1]
  /\ ret.v.a_bc[<<>>].empty_lines = 1 + arg[3][<<>>].empty_lines

\* The extension key of a file name, as C7 states it.
ExtKeyOf(name) ==
  IF ~HasDot(name) \/ DotFile(name) THEN <<>>
  ELSE IF \E i \in 1..Len(AfterLastDot(name)) : AfterLastDot(name)[i] = "BAD"
       THEN <<>>
  ELSE AfterLastDot(name)

\* The positions of the list whose file has the extension key k.
FilesOfKey(k) == {p \in 1..Len(files) : ExtKeyOf(NodeName(files[p])) = k}

\* C15: the keys of the map count_lines_by_ext returns are exactly the
\* extension keys of the files of the list, for every thread count; a key
\* all of whose files fail to be read is present and maps to {0,0}; and
\* main prints the lines of exactly these keys.
C15_KeysAreFileExtensions ==
  (Completed /\ by_ext) =>
    /\ DOMAIN res.v = {ExtKeyOf(NodeName(files[p])) : p \in 1..Len(files)}
    /\ \A k \in DOMAIN res.v :
         (\A p \in FilesOfKey(k) : ReadFails(FileData(p))) =>
           res.v[k] = [lines_of_code |-> 0, empty_lines |-> 0]
    /\ PrintedKeys \subseteq DOMAIN res.v
    /\ pc = "done" => PrintedKeys = DOMAIN res.v

C15_Witness ==
  /\ pc = "done" /\ by_ext /\ threads > 1 /\ Len(files) = 3
  /\ DOMAIN res.v = {<<>>, <<"t">>}
  /\ FilesOfKey(<<>>) = {3} /\ ReadFails(FileData(3))
  /\ res.v[<<>>] = [lines_of_code |-> 0, empty_lines |-> 0]
  /\ res.v[<<"t">>].lines_of_code = 2
  /\ PrintedKeys = {<<>>, <<"t">>}

====
